---- MODULE Spec2Model ----
(***************************************************************************)
(* Model of src/generate_data.py, the StreamPro synthetic data generator.  *)
(*                                                                         *)
(* write_outputs seeds the two pseudo-random generators from cfg.seed,     *)
(* builds the users, videos and devices tables, runs generate_events and   *)
(* writes four files.  Every random draw is a function of the generator    *)
(* state, so a run is determined by its configuration and by the wall      *)
(* clock that generate_users and generate_events read.                     *)
(*                                                                         *)
(* Two runs of the program are executed side by side, run 1 and run 2,     *)
(* with the same configuration and each with its own wall clock, so that   *)
(* a statement comparing two runs is a statement about one state.          *)
(*                                                                         *)
(* Modelling notes.                                                        *)
(*  - A datetime is a count of seconds; all timedeltas of the program are  *)
(*    whole seconds, so the microseconds of utcnow() are a constant of the *)
(*    run.  isoformat() splits a datetime into <<day, hour, min, sec>>;    *)
(*    claims about timestamps read the rows and convert back.              *)
(*  - A formatted string is the sequence of its pieces, numbers formatted  *)
(*    with a minimum width becoming their padded digit sequences.          *)
(*  - None is the empty sequence; an integer field that may be None holds  *)
(*    <<v>> when set.                                                      *)
(*  - random and numpy.random are library generators (Mersenne Twister).   *)
(*    They are modelled by one small Lehmer generator each: seeded from    *)
(*    the seed, advanced once per draw, the draw a function of the state.  *)
(*    The unbounded Poisson and exponential draws are capped.              *)
(*  - The source file holds the program twice, lines 1-268 and 270-538,    *)
(*    the same but for three comments; the model follows the first copy.   *)
(***************************************************************************)
EXTENDS Integers, Sequences, FiniteSets

(* ---------------------------- bounds ---------------------------------- *)
MaxDays == 1
MaxUsers == 2
MaxVideos == 2
MaxSeed == 39
PoissonCap == 2
ExpCap == 24

Runs == {1, 2}
\* wall-clock instants (seconds) a run may read from datetime.utcnow()
Clocks == {900000, 986461}

(* ------------------------- time arithmetic ---------------------------- *)
DaySeconds == 86400
HourSeconds == 3600
MinuteSeconds == 60

None == <<>>

timedelta(days, hours, minutes, seconds) ==
    days * DaySeconds + hours * HourSeconds + minutes * MinuteSeconds + seconds

date(dt) == dt \div DaySeconds

isoformat(dt) ==
    << dt \div DaySeconds,
       (dt % DaySeconds) \div HourSeconds,
       (dt % HourSeconds) \div MinuteSeconds,
       dt % MinuteSeconds >>

(* ------------------------- string formatting -------------------------- *)
RECURSIVE DigitsOf(_)
DigitsOf(n) == IF n < 10 THEN <<n>> ELSE DigitsOf(n \div 10) \o <<n % 10>>

RECURSIVE ZeroPad(_, _)
ZeroPad(ds, width) == IF Len(ds) >= width THEN ds ELSE ZeroPad(<<0>> \o ds, width)

\* f"{n:0<width>d}"
FormatInt(n, width) == ZeroPad(DigitsOf(n), width)

\* f"u_{i:05d}"
UserId(i) == <<"u_">> \o FormatInt(i, 5)

\* f"v_{i:05d}"
VideoId(i) == <<"v_">> \o FormatInt(i, 5)

\* f"s_{user_id}_{s:04d}"
SessionId(user_id, s) == <<"s_">> \o user_id \o <<"_">> \o FormatInt(s, 4)

(* ----------------------- pseudo-random generators --------------------- *)
LcgModulus == 65537
LcgMultiplier == 75
NumpyOffset == 257

LcgNext(x) == (x * LcgMultiplier) % LcgModulus

\* random.seed(seed)
PySeed(seed) == 1 + (seed % (LcgModulus - 1))

\* np.random.seed(seed)
NpSeed(seed) == 1 + ((seed * NumpyOffset + NumpyOffset) % (LcgModulus - 1))

\* the generator state after n draws
RECURSIVE Skip(_, _)
Skip(x, n) == IF n <= 0 THEN x ELSE Skip(LcgNext(x), n - 1)

\* random.randint(a, b), both ends included, from the state x of the draw
randint(x, a, b) == a + (x % (b - a + 1))

\* random.choice(seq) for a non-empty seq
choice(x, seq) == seq[1 + (x % Len(seq))]

\* random.random() in hundredths
random100(x) == x % 100

\* random.sample(population, k): k draws from a shrinking pool
RECURSIVE sample(_, _, _)
sample(x, pool, k) ==
    IF k <= 0 THEN <<>>
    ELSE LET x1 == LcgNext(x)
             n == Len(pool)
             j == 1 + (x1 % n)
             rest == SubSeq([pool EXCEPT ![j] = pool[n]], 1, n - 1)
         IN  <<pool[j]>> \o sample(x1, rest, k - 1)

\* np.random.poisson(lam=1.8), capped
poisson(x) == x % (PoissonCap + 1)

\* int(np.random.exponential(scale=12)), capped
exponential_int(x) == x % (ExpCap + 1)

Min(a, b) == IF a <= b THEN a ELSE b
Max(a, b) == IF a >= b THEN a ELSE b

(* ------------------------------ state --------------------------------- *)
VARIABLES cfg, clock, run

vars == <<cfg, clock, run>>

\* GeneratorConfig (out_dir is fixed)
Configs ==
    [days : 0..MaxDays, users : (0 - 1)..MaxUsers, videos : (0 - 1)..MaxVideos,
     seed : 0..MaxSeed]

InitRun ==
    [pc |-> "write_outputs", error |-> "none", py |-> 0, np |-> 0,
     out_dir |-> FALSE, files |-> <<>>,
     users_df |-> <<>>, videos_df |-> <<>>, devices_df |-> <<>>,
     base_dt |-> 0, rows |-> <<>>, user_ids |-> <<>>, video_ids |-> <<>>,
     u |-> 0, user_id |-> None, num_sessions |-> 0, session_time |-> 0,
     first_login_emitted |-> FALSE, s |-> 0, session_id |-> None,
     attrs |-> <<>>, session_watch_seconds |-> 0, num_chunks |-> 0, chunk |-> 0,
     t |-> 0, watched_videos |-> <<>>, end_time |-> 0]

Init ==
    /\ cfg \in Configs
    /\ clock \in [Runs -> Clocks]
    /\ run = [r \in Runs |-> InitRun]

(* ------------------------ write_outputs: setup ------------------------ *)
\* random.seed(cfg.seed); np.random.seed(cfg.seed); ensure_out(cfg.out_dir)
SeedAndEnsureOut(r) ==
    [r EXCEPT !.py = PySeed(cfg.seed), !.np = NpSeed(cfg.seed),
              !.out_dir = TRUE, !.pc = "generate_users"]

(* --------------------------- generate_users --------------------------- *)
subscription_tiers == <<"free", "basic", "premium">>
age_groups == <<"18-24", "25-34", "35-44", "45-54", "55+">>
genders == <<"female", "male", "other", "prefer_not_to_say">>
SignupSlackDays == 7

\* the row of user i (0-based), four draws from the state x
UserRow(x, today, i) ==
    [user_id |-> UserId(i),
     signup_date |-> today - randint(Skip(x, 1), 1, cfg.days + SignupSlackDays),
     subscription_tier |-> choice(Skip(x, 2), subscription_tiers),
     age_group |-> choice(Skip(x, 3), age_groups),
     gender |-> choice(Skip(x, 4), genders)]

generate_users(r, now) ==
    LET n == Max(cfg.users, 0)
        today == date(now)
    IN  [r EXCEPT !.users_df = [i \in 1..n |-> UserRow(Skip(r.py, 4 * (i - 1)), today, i - 1)],
                  !.py = Skip(r.py, 4 * n),
                  !.pc = "generate_videos"]

(* --------------------------- generate_videos -------------------------- *)
genres == <<"drama", "comedy", "documentary", "action", "horror", "sci-fi",
            "fantasy", "romance">>
MinDuration == 30
MaxDuration == 3600
MinPatent == 1000
MaxPatent == 9999

VideoRow(x, i) ==
    [video_id |-> VideoId(i),
     title |-> <<"Video ">> \o DigitsOf(i),
     genre |-> choice(Skip(x, 1), genres),
     duration_seconds |-> randint(Skip(x, 2), MinDuration, MaxDuration),
     patent_id |-> <<"pat_">> \o DigitsOf(randint(Skip(x, 3), MinPatent, MaxPatent))]

generate_videos(r) ==
    LET n == Max(cfg.videos, 0)
    IN  [r EXCEPT !.videos_df = [i \in 1..n |-> VideoRow(Skip(r.py, 3 * (i - 1)), i - 1)],
                  !.py = Skip(r.py, 3 * n),
                  !.pc = "generate_devices"]

(* --------------------------- generate_devices ------------------------- *)
device_types == <<"mobile", "tablet", "desktop">>
device_models == <<"A1", "A2", "B1", "B2", "C1">>
os_versions == <<"iOS 16", "Android 13", "Windows 11", "macOS 14">>

generate_devices(r) ==
    LET nm == Len(device_models)
        no == Len(os_versions)
        n == Len(device_types) * nm * no
    IN  [r EXCEPT !.devices_df =
                      [k \in 1..n |->
                          [device |-> device_types[1 + ((k - 1) \div (nm * no))],
                           device_model |-> device_models[1 + (((k - 1) \div no) % nm)],
                           os_version |-> os_versions[1 + ((k - 1) % no)]]],
                  !.pc = "generate_events"]

(* --------------------------- generate_events -------------------------- *)
accounts == <<"acct_1", "acct_2", "acct_3">>
device_os_options == <<"iOS", "Android", "Windows", "macOS">>
app_versions == <<"1.0.0", "1.1.0", "1.2.0", "2.0.0", "2.1.0">>
network_types == <<"wifi", "4G", "5G">>
countries == <<"US", "CA", "GB", "DE", "FR", "BR", "IN", "AU", "JP">>

FirstLoginLeadMinutes == 5
MinChunks == 1
MaxChunks == 10
MinAdvance == 1
MaxAdvance == 50
MinWatched == 1
MaxWatched == 4
LikePercent == 12
LikeDelay == 1
MaxSlack == 60
MinGapMinutes == 10
MaxGapMinutes == 600
HoursPerDay == 24
MaxOctet == 255
MaxHostOctet == 254

\* lines 94-105: the window start, the empty event list, the id columns
begin_events(r, now) ==
    [r EXCEPT !.base_dt = now - timedelta(cfg.days, 0, 0, 0),
              !.rows = <<>>,
              !.user_ids = [i \in 1..Len(r.users_df) |-> r.users_df[i].user_id],
              !.video_ids = [i \in 1..Len(r.videos_df) |-> r.videos_df[i].video_id],
              !.u = 0,
              !.pc = "user_loop"]

\* lines 107-111: the head of one iteration of the loop over user_ids
\* variant: the offset drawn over one day more
SessionStartOffset_ExtraDay(x) == randint(x, 0, (cfg.days + 1) * HoursPerDay)

SessionStartOffset(x) == randint(x, 0, cfg.days * HoursPerDay)

next_user(r) ==
    [r EXCEPT !.user_id = r.user_ids[r.u + 1],
              !.num_sessions = poisson(Skip(r.np, 1)) + 1,
              !.np = Skip(r.np, 1),
              !.session_time = r.base_dt + timedelta(0, SessionStartOffset(Skip(r.py, 1)), 0, 0),
              !.py = Skip(r.py, 1),
              !.first_login_emitted = FALSE,
              !.s = 0,
              !.pc = "session_loop"]

\* line 218: return rows
return_rows(r) == [r EXCEPT !.pc = "write_files"]

\* one dict appended to rows
Event(r, ids, a, timestamp, video_id, event_name, value) ==
    [timestamp |-> isoformat(timestamp),
     account_id |-> a.account_id,
     user_id |-> r.user_id,
     video_id |-> video_id,
     session_id |-> ids,
     event_name |-> event_name,
     value |-> value,
     device |-> a.device,
     device_os |-> a.device_os,
     app_version |-> a.app_version,
     network_type |-> a.network_type,
     ip |-> a.ip,
     country |-> a.country]

\* lines 114-121: the session-scoped attributes, nine draws from the state x
SessionAttrs(x) ==
    [account_id |-> choice(Skip(x, 1), accounts),
     device |-> choice(Skip(x, 2), device_types),
     device_os |-> choice(Skip(x, 3), device_os_options),
     app_version |-> choice(Skip(x, 4), app_versions),
     network_type |-> choice(Skip(x, 5), network_types),
     ip |-> <<10, randint(Skip(x, 6), 0, MaxOctet), randint(Skip(x, 7), 0, MaxOctet),
              randint(Skip(x, 8), 1, MaxHostOctet)>>,
     country |-> choice(Skip(x, 9), countries)]

\* variant: the lead counted in seconds
FirstLoginTime_Seconds(session_time) ==
    session_time - timedelta(0, 0, 0, FirstLoginLeadMinutes)

FirstLoginTime(session_time) == session_time - timedelta(0, 0, FirstLoginLeadMinutes, 0)

\* variant: the session index left out of the id
MakeSessionId_NoIndex(user_id, s) == SessionId(user_id, 0)

\* line 115
MakeSessionId(user_id, s) == SessionId(user_id, s)

\* line 161: k = min(len(video_ids), random.randint(1, 4))
WatchedCount(x, video_ids) == Min(Len(video_ids), randint(x, MinWatched, MaxWatched))

\* lines 113-161: the head of one iteration of the loop over sessions
begin_session(r) ==
    LET a == SessionAttrs(r.py)
        ids == MakeSessionId(r.user_id, r.s)
        login == IF r.first_login_emitted THEN <<>>
                 ELSE <<Event(r, ids, a, FirstLoginTime(r.session_time), None,
                              "first_login", None)>>
        start == <<Event(r, ids, a, r.session_time, None, "session_start", None)>>
        k == WatchedCount(Skip(r.py, 11), r.video_ids)
    IN  [r EXCEPT !.attrs = a,
                  !.session_id = ids,
                  !.rows = r.rows \o login \o start,
                  !.first_login_emitted = TRUE,
                  !.session_watch_seconds = 0,
                  !.num_chunks = randint(Skip(r.py, 10), MinChunks, MaxChunks),
                  !.chunk = 0,
                  !.t = r.session_time,
                  !.watched_videos = sample(Skip(r.py, 11), r.video_ids, k),
                  !.py = Skip(r.py, 11 + k),
                  !.pc = "chunk_loop"]

\* line 164
WatchValue(x) == exponential_int(x) + 1

\* variant: the advance counted in minutes
AdvanceT_Minutes(t, x) == t + timedelta(0, 0, randint(x, MinAdvance, MaxAdvance), 0)

\* line 163
AdvanceT(t, x) == t + timedelta(0, 0, 0, randint(x, MinAdvance, MaxAdvance))

\* variant: the delay counted in minutes
LikeTime_Minute(t) == t + timedelta(0, 0, LikeDelay, 0)

\* line 184
LikeTime(t) == t + timedelta(0, 0, 0, LikeDelay)

\* variant: the video drawn from the whole catalogue
WatchVideo_AnyVideo(x, watched_videos) ==
    choice(x, [i \in 1..Max(cfg.videos, 0) |-> VideoId(i - 1)])

\* line 170
WatchVideo(x, watched_videos) == choice(x, watched_videos)

\* variant: the total overwritten, not accumulated
AddWatch_Assign(session_watch_seconds, value) == value

\* line 165
AddWatch(session_watch_seconds, value) == session_watch_seconds + value

\* lines 162-197: one iteration of the loop over chunks, watched_videos non-empty
watch_chunk(r) ==
    LET t2 == AdvanceT(r.t, Skip(r.py, 1))
        value == WatchValue(Skip(r.np, 1))
        watch == Event(r, r.session_id, r.attrs, t2,
                       WatchVideo(Skip(r.py, 2), r.watched_videos), "watch_time", <<value>>)
        liked == random100(Skip(r.py, 3)) < LikePercent
        like == Event(r, r.session_id, r.attrs, LikeTime(t2),
                      choice(Skip(r.py, 4), r.watched_videos),
                      choice(Skip(r.py, 5), <<"like", "heart">>), None)
    IN  [r EXCEPT !.t = t2,
                  !.session_watch_seconds = AddWatch(r.session_watch_seconds, value),
                  !.np = Skip(r.np, 1),
                  !.rows = r.rows \o <<watch>> \o (IF liked THEN <<like>> ELSE <<>>),
                  !.py = Skip(r.py, IF liked THEN 5 ELSE 3),
                  !.chunk = r.chunk + 1,
                  !.pc = IF r.chunk + 1 < r.num_chunks THEN "chunk_loop" ELSE "session_end"]

\* lines 163-170 with watched_videos empty: random.choice([]) raises IndexError
\* while the watch_time dict is built, before it is appended
watch_chunk_raises(r) ==
    [r EXCEPT !.t = AdvanceT(r.t, Skip(r.py, 1)),
              !.session_watch_seconds =
                  AddWatch(r.session_watch_seconds, WatchValue(Skip(r.np, 1))),
              !.np = Skip(r.np, 1),
              !.py = Skip(r.py, 1),
              !.error = "IndexError",
              !.pc = "error"]

\* line 199
EndTime(session_time, session_watch_seconds, slack) ==
    session_time + timedelta(0, 0, 0, session_watch_seconds + slack)

\* variant: the gap counted in seconds
NextSessionTime_Seconds(end_time, gap) == end_time + timedelta(0, 0, 0, gap)

\* line 216
NextSessionTime(end_time, gap) == end_time + timedelta(0, 0, gap, 0)

\* lines 199-216: the tail of one iteration of the loop over sessions
end_session(r) ==
    LET end == EndTime(r.session_time, r.session_watch_seconds,
                       randint(Skip(r.py, 1), 0, MaxSlack))
        last == r.s + 1 >= r.num_sessions
    IN  [r EXCEPT !.end_time = end,
                  !.rows = r.rows \o <<Event(r, r.session_id, r.attrs, end, None,
                                             "session_end", None)>>,
                  !.session_time =
                      NextSessionTime(end, randint(Skip(r.py, 2), MinGapMinutes, MaxGapMinutes)),
                  !.py = Skip(r.py, 2),
                  !.s = r.s + 1,
                  !.u = IF last THEN r.u + 1 ELSE r.u,
                  !.pc = IF last THEN "user_loop" ELSE "session_loop"]

(* ----------------------- write_outputs: the files --------------------- *)
\* lines 231-243
write_files(r) ==
    [r EXCEPT !.files = [users |-> r.users_df, videos |-> r.videos_df,
                         devices |-> r.devices_df, events |-> r.rows],
              !.pc = "done"]

(* ------------------------------ actions ------------------------------- *)
\* Both runs take the same step: they have the same configuration, hence the
\* same seed, the same draws and the same control flow.
pc == run[1].pc

SeedAndEnsureOutStep ==
    /\ pc = "write_outputs"
    /\ run' = [r \in Runs |-> SeedAndEnsureOut(run[r])]
    /\ UNCHANGED <<cfg, clock>>

GenerateUsers ==
    /\ pc = "generate_users"
    /\ run' = [r \in Runs |-> generate_users(run[r], clock[r])]
    /\ UNCHANGED <<cfg, clock>>

GenerateVideos ==
    /\ pc = "generate_videos"
    /\ run' = [r \in Runs |-> generate_videos(run[r])]
    /\ UNCHANGED <<cfg, clock>>

GenerateDevices ==
    /\ pc = "generate_devices"
    /\ run' = [r \in Runs |-> generate_devices(run[r])]
    /\ UNCHANGED <<cfg, clock>>

BeginEvents ==
    /\ pc = "generate_events"
    /\ run' = [r \in Runs |-> begin_events(run[r], clock[r])]
    /\ UNCHANGED <<cfg, clock>>

NextUser ==
    /\ pc = "user_loop"
    /\ run[1].u < Len(run[1].user_ids)
    /\ run' = [r \in Runs |-> next_user(run[r])]
    /\ UNCHANGED <<cfg, clock>>

ReturnRows ==
    /\ pc = "user_loop"
    /\ run[1].u >= Len(run[1].user_ids)
    /\ run' = [r \in Runs |-> return_rows(run[r])]
    /\ UNCHANGED <<cfg, clock>>

BeginSession ==
    /\ pc = "session_loop"
    /\ run' = [r \in Runs |-> begin_session(run[r])]
    /\ UNCHANGED <<cfg, clock>>

WatchChunk ==
    /\ pc = "chunk_loop"
    /\ run[1].watched_videos # <<>>
    /\ run' = [r \in Runs |-> watch_chunk(run[r])]
    /\ UNCHANGED <<cfg, clock>>

WatchChunkRaises ==
    /\ pc = "chunk_loop"
    /\ run[1].watched_videos = <<>>
    /\ run' = [r \in Runs |-> watch_chunk_raises(run[r])]
    /\ UNCHANGED <<cfg, clock>>

EndSession ==
    /\ pc = "session_end"
    /\ run' = [r \in Runs |-> end_session(run[r])]
    /\ UNCHANGED <<cfg, clock>>

WriteFiles ==
    /\ pc = "write_files"
    /\ run' = [r \in Runs |-> write_files(run[r])]
    /\ UNCHANGED <<cfg, clock>>

Next ==
    \/ SeedAndEnsureOutStep
    \/ GenerateUsers
    \/ GenerateVideos
    \/ GenerateDevices
    \/ BeginEvents
    \/ NextUser
    \/ ReturnRows
    \/ BeginSession
    \/ WatchChunk
    \/ WatchChunkRaises
    \/ EndSession
    \/ WriteFiles

Spec == Init /\ [][Next]_vars

(* ===================== reading the generated tables =================== *)
\* datetime.fromisoformat, in seconds
Seconds(ts) ==
    ts[1] * DaySeconds + ts[2] * HourSeconds + ts[3] * MinuteSeconds + ts[4]

\* generate_events has returned its list in run r
Returned(r) == run[r].pc \in {"write_files", "done"}

IsEngagement(e) == e.event_name \in {"watch_time", "like", "heart"}

IsBracket(e) == e.event_name \in {"session_start", "session_end"}

Named(rows, name) == {i \in DOMAIN rows : rows[i].event_name = name}

SessionIdsIn(rows) == {rows[i].session_id : i \in DOMAIN rows}

OfSession(rows, sid) == {i \in DOMAIN rows : rows[i].session_id = sid}

StartsOf(rows, sid) == OfSession(rows, sid) \cap Named(rows, "session_start")

EndsOf(rows, sid) == OfSession(rows, sid) \cap Named(rows, "session_end")

TimeAt(rows, i) == Seconds(rows[i].timestamp)

\* the one element of a singleton set of indices
TheOne(S) == CHOOSE i \in S : TRUE

RECURSIVE SumValues(_, _)
SumValues(rows, S) ==
    IF S = {} THEN 0
    ELSE LET i == TheOne(S) IN rows[i].value[1] + SumValues(rows, S \ {i})

ValidConfig == cfg.users > 0 /\ cfg.videos > 0

(* ============================== claims ================================ *)

\* C1: in the returned event list, every event of a session other than its
\* session_start and session_end (first_login, watch_time, like, heart) has a
\* timestamp between the session_start's and the session_end's, both included.
C1_BracketedRows(rows) ==
    \A sid \in SessionIdsIn(rows) :
        \A i \in StartsOf(rows, sid), k \in EndsOf(rows, sid), j \in OfSession(rows, sid) :
            ~IsBracket(rows[j]) =>
                /\ TimeAt(rows, i) <= TimeAt(rows, j)
                /\ TimeAt(rows, j) <= TimeAt(rows, k)

C1_SessionBracketing ==
    \A r \in Runs : Returned(r) => C1_BracketedRows(run[r].rows)

\* C2: two runs with the same configuration write the same users, videos,
\* devices and events, whatever the wall clock of each run.
C2_Determinism ==
    (run[1].pc = "done" /\ run[2].pc = "done") => run[1].files = run[2].files

\* C3: with users <= 0 or videos <= 0 the run never generates a record, never
\* consumes a draw, never writes a file, never completes, and the only error it
\* ends in is ConfigurationError.
C3_ConfigurationErrorFirst ==
    ~ValidConfig =>
        \A r \in Runs :
            /\ run[r].pc # "done"
            /\ run[r].error \in {"none", "ConfigurationError"}
            /\ run[r].users_df = <<>> /\ run[r].videos_df = <<>> /\ run[r].rows = <<>>
            /\ run[r].py \in {0, PySeed(cfg.seed)}
            /\ run[r].np \in {0, NpSeed(cfg.seed)}
            /\ run[r].files = <<>>

\* C4: in the returned event list every user of the users table has exactly one
\* first_login; it carries the id of the user's session 0, the next row is that
\* session's session_start, 300 s later, and no session_start of the user is
\* earlier than that one.
C4_FirstLoginRows(rows, user_ids) ==
    \A n \in DOMAIN user_ids :
        LET uid == user_ids[n]
            logins == {i \in Named(rows, "first_login") : rows[i].user_id = uid}
            starts == {i \in Named(rows, "session_start") : rows[i].user_id = uid}
        IN  /\ Cardinality(logins) = 1
            /\ \A i \in logins :
                /\ rows[i].session_id = SessionId(uid, 0)
                /\ i + 1 \in starts
                /\ rows[i + 1].session_id = SessionId(uid, 0)
                /\ TimeAt(rows, i + 1) - TimeAt(rows, i) = 5 * 60
                /\ \A j \in starts : TimeAt(rows, i + 1) <= TimeAt(rows, j)

C4_FirstLoginOnce ==
    \A r \in Runs : Returned(r) => C4_FirstLoginRows(run[r].rows, run[r].user_ids)

C4_Witness ==
    /\ Returned(1)
    /\ Len(run[1].user_ids) >= 2
    /\ \E i \in Named(run[1].rows, "session_start") :
          /\ run[1].rows[i].session_id = SessionId(run[1].user_ids[2], 1)
          /\ i > 1
          /\ run[1].rows[i - 1].event_name = "session_end"
    /\ Cardinality(Named(run[1].rows, "first_login")) = 2

\* C5: for each user, session N >= 1 starts strictly after session N-1 started
\* and at least 10 and at most 600 minutes after session N-1 ended.
C5_OrderedRows(rows, user_ids) ==
    \A n \in DOMAIN user_ids : \A N \in 1..(PoissonCap + 1) :
        LET prev == SessionId(user_ids[n], N - 1)
            this == SessionId(user_ids[n], N)
        IN  \A i \in StartsOf(rows, this) :
                /\ StartsOf(rows, prev) # {} /\ EndsOf(rows, prev) # {}
                /\ \A p \in StartsOf(rows, prev) : TimeAt(rows, p) < TimeAt(rows, i)
                /\ \A q \in EndsOf(rows, prev) :
                      /\ TimeAt(rows, q) < TimeAt(rows, i)
                      /\ TimeAt(rows, i) - TimeAt(rows, q) >= 10 * 60
                      /\ TimeAt(rows, i) - TimeAt(rows, q) <= 600 * 60

C5_SessionsOrdered ==
    \A r \in Runs : Returned(r) => C5_OrderedRows(run[r].rows, run[r].user_ids)

C5_Witness ==
    /\ Returned(1)
    /\ \E n \in DOMAIN run[1].user_ids :
          /\ StartsOf(run[1].rows, SessionId(run[1].user_ids[n], 2)) # {}
          /\ \E q \in EndsOf(run[1].rows, SessionId(run[1].user_ids[n], 0)),
                i \in StartsOf(run[1].rows, SessionId(run[1].user_ids[n], 1)) :
                TimeAt(run[1].rows, i) - TimeAt(run[1].rows, q) > 300 * 60

\* C6: in the returned event list every session id has exactly one
\* session_start and exactly one session_end, the start emitted first and the
\* end not earlier in time; so no two sessions share an id.
C6_OneBracketRows(rows) ==
    \A sid \in SessionIdsIn(rows) :
        /\ Cardinality(StartsOf(rows, sid)) = 1
        /\ Cardinality(EndsOf(rows, sid)) = 1
        /\ \A i \in StartsOf(rows, sid), k \in EndsOf(rows, sid) :
              i < k /\ TimeAt(rows, i) <= TimeAt(rows, k)

C6_SessionIdsUnique ==
    \A r \in Runs : Returned(r) => C6_OneBracketRows(run[r].rows)

C6_Witness ==
    /\ Returned(1)
    /\ Cardinality(SessionIdsIn(run[1].rows)) >= 4
    /\ Cardinality({run[1].rows[i].user_id : i \in DOMAIN run[1].rows}) >= 2

Range(seq) == {seq[i] : i \in DOMAIN seq}

\* C7: every emitted event has video_id None exactly when it is a first_login,
\* session_start or session_end; a watch_time, like or heart names a video of
\* the catalogue, and one of the session's drawn subset; value is an integer
\* >= 1 exactly when the event is a watch_time and None otherwise.
C7_NullDisciplineRows(rows, video_ids, session_id, watched_videos) ==
    \A i \in DOMAIN rows :
        LET e == rows[i]
        IN  /\ (e.video_id = None) <=> ~IsEngagement(e)
            /\ e.event_name \in {"first_login", "session_start", "session_end",
                                 "watch_time", "like", "heart"}
            /\ IsEngagement(e) => e.video_id \in Range(video_ids)
            /\ (IsEngagement(e) /\ e.session_id = session_id) =>
                   e.video_id \in Range(watched_videos)
            /\ (e.value # None) <=> (e.event_name = "watch_time")
            /\ (e.event_name = "watch_time") =>
                   (Len(e.value) = 1 /\ e.value[1] \in Int /\ e.value[1] >= 1)

C7_NullDiscipline ==
    \A r \in Runs :
        C7_NullDisciplineRows(run[r].rows, run[r].video_ids, run[r].session_id,
                              run[r].watched_videos)

C7_Witness ==
    /\ Len(run[1].video_ids) = 2
    /\ Len(run[1].watched_videos) = 1
    /\ run[1].pc = "session_end"
    /\ \E i, j \in OfSession(run[1].rows, run[1].session_id) :
          /\ run[1].rows[i].event_name = "watch_time"
          /\ run[1].rows[j].event_name \in {"like", "heart"}

\* C8 as stated: within one session the timestamps of the watch_time, like and
\* heart events are strictly increasing in the order of emission.
C8_StrictRows(rows) ==
    \A i, j \in DOMAIN rows :
        (/\ i < j
         /\ IsEngagement(rows[i]) /\ IsEngagement(rows[j])
         /\ rows[i].session_id = rows[j].session_id)
        => TimeAt(rows, i) < TimeAt(rows, j)

C8_StrictlyIncreasing ==
    \A r \in Runs : Returned(r) => C8_StrictRows(run[r].rows)

\* C8 as amended: within one session the timestamps of the watch_time, like
\* and heart events never decrease in the order of emission, and every event
\* emitted after a watch_time is strictly later than that watch_time; only a
\* like or heart can share its timestamp with a later event.
C8_MonotoneRows(rows) ==
    \A i, j \in DOMAIN rows :
        (/\ i < j
         /\ IsEngagement(rows[i]) /\ IsEngagement(rows[j])
         /\ rows[i].session_id = rows[j].session_id)
        => /\ TimeAt(rows, i) <= TimeAt(rows, j)
           /\ (rows[i].event_name = "watch_time") => TimeAt(rows, i) < TimeAt(rows, j)

C8_NonDecreasing ==
    \A r \in Runs : Returned(r) => C8_MonotoneRows(run[r].rows)

\* a like or heart at t+1 followed by the next chunk's watch_time, also at t+1
C8_Witness ==
    /\ Returned(1)
    /\ \E i \in DOMAIN run[1].rows :
          /\ i + 1 \in DOMAIN run[1].rows
          /\ run[1].rows[i].event_name \in {"like", "heart"}
          /\ run[1].rows[i + 1].event_name = "watch_time"
          /\ run[1].rows[i + 1].session_id = run[1].rows[i].session_id
          /\ TimeAt(run[1].rows, i + 1) = TimeAt(run[1].rows, i)

\* the start of the window of run r: the generation time minus cfg.days days
WindowStart(r) == clock[r] - cfg.days * DaySeconds

\* the session_start rows of the first session of each user
FirstStarts(rows, user_ids) ==
    UNION {StartsOf(rows, SessionId(user_ids[n], 0)) : n \in DOMAIN user_ids}

\* C9 as stated: every user's first session starts a whole number of hours h
\* after the window start with 0 <= h < days*24, hence strictly before the
\* generation time; with days = 0, h = 0.
C9_OffsetExclusive ==
    \A r \in Runs : \A i \in FirstStarts(run[r].rows, run[r].user_ids) :
        LET off == TimeAt(run[r].rows, i) - WindowStart(r)
        IN  /\ off % HourSeconds = 0
            /\ 0 <= off
            /\ (cfg.days = 0) => (off = 0)
            /\ (cfg.days > 0) =>
                  (off \div HourSeconds < cfg.days * 24 /\ TimeAt(run[r].rows, i) < clock[r])

\* C9 as amended: every user's first session starts a whole number of hours h
\* after the window start with 0 <= h <= days*24, the upper bound included,
\* hence not later than the generation time; with days = 0, h = 0.
C9_OffsetInclusive ==
    \A r \in Runs : \A i \in FirstStarts(run[r].rows, run[r].user_ids) :
        LET off == TimeAt(run[r].rows, i) - WindowStart(r)
        IN  /\ off % HourSeconds = 0
            /\ 0 <= off
            /\ off \div HourSeconds <= cfg.days * 24
            /\ TimeAt(run[r].rows, i) <= clock[r]
            /\ (cfg.days = 0) => (off = 0)

\* a first session that starts at the generation time itself, days >= 1
C9_Witness ==
    /\ cfg.days >= 1
    /\ Returned(1)
    /\ \E i \in FirstStarts(run[1].rows, run[1].user_ids) :
          TimeAt(run[1].rows, i) = clock[1]

\* C10: for every session of the returned event list, session_end is later
\* than session_start by the sum of the values of the session's watch_time
\* events plus a slack of 0 to 60 seconds, and by nothing else.
C10_EndRows(rows) ==
    \A sid \in SessionIdsIn(rows) :
        \A i \in StartsOf(rows, sid), k \in EndsOf(rows, sid) :
            LET watched == OfSession(rows, sid) \cap Named(rows, "watch_time")
                slack == TimeAt(rows, k) - TimeAt(rows, i) - SumValues(rows, watched)
            IN  0 <= slack /\ slack <= 60

C10_EndIsStartPlusWatchPlusSlack ==
    \A r \in Runs : Returned(r) => C10_EndRows(run[r].rows)

\* a session of three or more chunks with a like or heart, whose last event is
\* later than its session_end
C10_Witness ==
    /\ Returned(1)
    /\ \E sid \in SessionIdsIn(run[1].rows) :
          LET S == OfSession(run[1].rows, sid)
          IN  /\ Cardinality(S \cap Named(run[1].rows, "watch_time")) >= 3
              /\ \E j \in S : run[1].rows[j].event_name \in {"like", "heart"}
              /\ \E j \in S, k \in EndsOf(run[1].rows, sid) :
                    /\ IsEngagement(run[1].rows[j])
                    /\ TimeAt(run[1].rows, j) > TimeAt(run[1].rows, k)

\* C11: for each user and N >= 1, every watch_time, like and heart of session
\* N-1 is strictly earlier than the session_start of session N and than every
\* event of session N; so, session_end rows apart, the timestamps of a user's
\* events never decrease in the order of emission.
C11_BoundaryRows(rows, user_ids) ==
    /\ \A n \in DOMAIN user_ids : \A N \in 1..(PoissonCap + 1) :
          LET prev == OfSession(rows, SessionId(user_ids[n], N - 1))
              this == OfSession(rows, SessionId(user_ids[n], N))
          IN  \A j \in prev : IsEngagement(rows[j]) =>
                  \A i \in this : TimeAt(rows, j) < TimeAt(rows, i)
    /\ \A i, j \in DOMAIN rows :
          (/\ i < j
           /\ rows[i].user_id = rows[j].user_id
           /\ rows[i].event_name # "session_end"
           /\ rows[j].event_name # "session_end")
          => TimeAt(rows, i) <= TimeAt(rows, j)

C11_EarlierThanNextSession ==
    \A r \in Runs : Returned(r) => C11_BoundaryRows(run[r].rows, run[r].user_ids)

\* a session followed by another one of the same user, with ten chunks and an
\* event later than its own session_end
C11_Witness ==
    /\ Returned(1)
    /\ \E n \in DOMAIN run[1].user_ids :
          LET prev == OfSession(run[1].rows, SessionId(run[1].user_ids[n], 0))
              this == StartsOf(run[1].rows, SessionId(run[1].user_ids[n], 1))
          IN  /\ this # {}
              /\ Cardinality(prev \cap Named(run[1].rows, "watch_time")) = 10
              /\ \E j \in prev, k \in EndsOf(run[1].rows, SessionId(run[1].user_ids[n], 0)) :
                    /\ IsEngagement(run[1].rows[j])
                    /\ TimeAt(run[1].rows, j) > TimeAt(run[1].rows, k)

====
